---- MODULE Spec2Model ----
(***************************************************************************)
(* Survey bot: the conversation state machine of bot/handlers.py           *)
(* (registration, main menu, survey progression, cancel) over the durable   *)
(* rows of survey/models.py.                                               *)
(*                                                                         *)
(* Conventions.                                                            *)
(*  - A message text is a sequence of atoms (strings); a button label is   *)
(*    such a sequence too.  Python's `a == b` is sequence equality and     *)
(*    `a in b` is "a occurs as a contiguous run of b".                     *)
(*  - A table is a sequence of rows, the primary key of a row is its       *)
(*    field id; a nullable foreign key holds 0 for NULL; a nullable text   *)
(*    column holds NULL; a nullable integer column holds NoInt.            *)
(*  - One handler call is one step.  A handler that raises leaves the      *)
(*    conversation state as it was (the dispatcher logs the error) and     *)
(*    keeps the rows it wrote before the raise.                            *)
(*  - Relation access on a model instance (session.current_question,      *)
(*    session.survey) is modelled as the row it resolves to.               *)
(***************************************************************************)
EXTENDS Integers, Sequences, FiniteSets, TLC

\* ------------------------------------------------------------------ bounds
MaxQuestions == 2
MaxSessions == 2
MaxSurveySessions == 1

\* ------------------------------------------------------- program constants
REGISTRATION_GENDER == 0
REGISTRATION_AGE == 1
REGISTRATION_OCCUPATION == 2
REGISTRATION_COURSE == 3
REGISTRATION_EXPERIENCE == 4
MAIN_MENU == 10
WAITING_TEXT_ANSWER == 12
WAITING_CHOICE_ANSWER == 13
WAITING_VOICE_ANSWER == 14
\* the dispatcher's "no conversation" (a key absent from its dictionary)
NO_CONVERSATION == -1

MinAge == 16
MaxAge == 100
MinCourse == 1
MaxCourse == 6
MinExperience == 0
MaxExperience == 60

NULL == "NULL"
NoInt == -1

\* ------------------------------------------------------------ button labels
BTN_START_SURVEY == <<"memo", "Nachat opros">>
BTN_INFO == <<"info", "Informatsiya">>
BTN_MY_SURVEYS == <<"chart", "Moi oprosy">>
BTN_PROFILE == <<"bust", "Moy profil">>
BTN_MALE == <<"man", "Muzhskoy">>
BTN_FEMALE == <<"woman", "Zhenskiy">>
BTN_STUDENT == <<"cap", "Uchus", "v vuze">>
BTN_WORKING == <<"case", "Rabotayu", "po spetsialnosti">>
BTN_SKIP == <<"next", "Propustit">>

get_main_menu_keyboard == <<BTN_START_SURVEY, BTN_INFO, BTN_MY_SURVEYS, BTN_PROFILE>>
get_gender_keyboard == <<BTN_MALE, BTN_FEMALE>>
get_occupation_keyboard == <<BTN_STUDENT, BTN_WORKING>>
get_course_keyboard == <<<<"1">>, <<"2">>, <<"3">>, <<"4">>, <<"5">>, <<"6">>>>
get_skip_keyboard == <<BTN_SKIP>>
NoKeyboard == <<>>

\* the literals the handlers compare a text with
LIT_START_SURVEY == <<"memo", "Nachat opros">>
LIT_INFO == <<"info", "Informatsiya">>
LIT_RESULTS == <<"chart", "Moi rezultaty">>
LIT_PROFILE == <<"bust", "Moy profil">>
LIT_SKIP == <<"next", "Propustit">>

\* ------------------------------------------------------------ text helpers
\* Python's `sub in text` for strings
Contains(text, sub) ==
    \E i \in 1..(Len(text) - Len(sub) + 1) : SubSeq(text, i, i + Len(sub) - 1) = sub

Numerals ==
    {"-1", "0", "1", "6", "7", "15", "16", "60", "61", "100", "101"}

NumeralValue(a) ==
    CASE a = "-1" -> -1
      [] a = "0" -> 0
      [] a = "1" -> 1
      [] a = "6" -> 6
      [] a = "7" -> 7
      [] a = "15" -> 15
      [] a = "16" -> 16
      [] a = "60" -> 60
      [] a = "61" -> 61
      [] a = "100" -> 100
      [] a = "101" -> 101

\* int(text) succeeds on a text that is one numeral and raises ValueError otherwise
IsInt(text) == Len(text) = 1 /\ text[1] \in Numerals
int(text) == NumeralValue(text[1])

\* ---------------------------------------------------------------- messages
CommandAtoms == {"/start", "/cancel", "/help"}

TextMsg(t) == [kind |-> "text", text |-> t, file_id |-> NULL]
VoiceMsg(f) == [kind |-> "voice", text |-> <<>>, file_id |-> f]
NoMsg == [kind |-> "none", text |-> <<>>, file_id |-> NULL]

\* filters.TEXT, filters.COMMAND, filters.VOICE and CommandHandler(name)
FilterText(m) == m.kind = "text" /\ Len(m.text) > 0
FilterCommand(m) == FilterText(m) /\ m.text[1] \in CommandAtoms
FilterVoice(m) == m.kind = "voice"
IsCommand(m, name) == FilterText(m) /\ m.text[1] = name

Reply(tag, index, kb) == [tag |-> tag, index |-> index, kb |-> kb]

VARIABLES
    settings,      \* django.conf.settings: ANONYMOUS_SALT, TELEGRAM_BOT_TOKEN
    running,       \* the bot process is polling
    surveys,       \* table Survey
    questions,     \* table Question
    options,       \* table QuestionOption
    respondents,   \* table Respondent
    sessions,      \* table SurveySession
    responses,     \* table Response, in insertion order
    conv,          \* ConversationHandler's state per user (in memory)
    user_data,     \* context.user_data per user (in memory)
    last           \* the step just taken: the update handled, the replies sent

vars ==
    <<settings, running, surveys, questions, options, respondents, sessions,
      responses, conv, user_data, last>>

durable == <<surveys, questions, options, respondents, sessions, responses>>
catalog == <<surveys, questions, options>>

\* platform user ids that write to the bot
Users == {7}
SurveyIds == {1, 2}
QIds == 1..MaxQuestions
OptIds == 1..(2 * MaxQuestions)
QUESTION_TYPES == {"text", "choice", "voice"}
NullText == <<>>
NoToken == <<>>

\* ------------------------------------------------------------ table access
Row(table, id) == CHOOSE r \in table : r.id = id
HasRow(table, id) == \E r \in table : r.id = id
SeqRows(s) == {s[i] : i \in DOMAIN s}
FreeId(table, ids) == CHOOSE i \in ids : ~HasRow(table, i) /\ \A j \in ids : j < i => HasRow(table, j)
\* row with the fields of `fields` overwritten, as setattr + save()
SetFields(row, fields) == [f \in DOMAIN row |-> IF f \in DOMAIN fields THEN fields[f] ELSE row[f]]
UpdateSeqRow(s, id, fields) == [i \in DOMAIN s |-> IF s[i].id = id THEN SetFields(s[i], fields) ELSE s[i]]
MinBy(rows) == CHOOSE r \in rows : \A o \in rows : r.order < o.order \/ (r.order = o.order /\ r.id <= o.id)

\* ------------------------------------------------------------- anonymizer
\* generate_anonymous_id: sha256(salt ":" telegram_id), a deterministic injection
HasSalt == settings.ANONYMOUS_SALT # ""
generate_anonymous_id(telegram_id) == <<settings.ANONYMOUS_SALT, telegram_id>>

\* ------------------------------------------------------- Respondent store
NewRespondent(id, anonymous_id) ==
    [id |-> id, anonymous_id |-> anonymous_id, gender |-> NULL, age |-> NoInt,
     occupation_type |-> NULL, university_course |-> NoInt,
     work_experience_years |-> NoInt, is_profile_complete |-> FALSE]

HasRespondent(rs, anonymous_id) == \E i \in DOMAIN rs : rs[i].anonymous_id = anonymous_id
get_respondent_in(rs, anonymous_id) == rs[CHOOSE i \in DOMAIN rs : rs[i].anonymous_id = anonymous_id]
get_respondent(anonymous_id) == get_respondent_in(respondents, anonymous_id)

get_or_create_respondent(anonymous_id) ==
    IF HasRespondent(respondents, anonymous_id)
    THEN respondents
    ELSE Append(respondents, NewRespondent(Len(respondents) + 1, anonymous_id))

\* faulty variant of update_respondent: the filter on anonymous_id is lost
update_respondent_all(anonymous_id, fields) ==
    [i \in DOMAIN respondents |-> SetFields(respondents[i], fields)]

update_respondent(anonymous_id, fields) ==
    UpdateSeqRow(respondents, get_respondent(anonymous_id).id, fields)

\* ------------------------------------------------------------- step frame
Handled(u, m, replies, raised) == [user |-> u, msg |-> m, replies |-> replies, raised |-> raised]
NoUpdate == Handled(0, NoMsg, <<>>, FALSE)

\* a handler returns `state`: the dispatcher stores it as the conversation's state
Return(u, m, state, replies) ==
    /\ conv' = [conv EXCEPT ![u] = state]
    /\ last' = Handled(u, m, replies, FALSE)

\* a handler raises: the dispatcher keeps the conversation's state
Raise(u, m, replies) ==
    /\ conv' = conv
    /\ last' = Handled(u, m, replies, TRUE)

\* ------------------------------------------------------------ the process
\* Command.handle: refuses to start without a token, then polls
RunBot ==
    /\ ~running
    /\ settings.TELEGRAM_BOT_TOKEN # ""
    /\ running' = TRUE
    /\ last' = NoUpdate
    /\ UNCHANGED <<settings, durable, conv, user_data>>

\* the process stops (Ctrl+C, a crash, a deploy): the dispatcher's conversation
\* states and user_data live in memory only
StopBot ==
    /\ running
    /\ running' = FALSE
    /\ conv' = [u \in Users |-> NO_CONVERSATION]
    /\ user_data' = [u \in Users |-> [anonymous_id |-> NoToken, session_id |-> 0]]
    /\ last' = NoUpdate
    /\ UNCHANGED <<settings, durable>>

\* ----------------------------------------------------------------- dispatch
\* the filter of the MessageHandler that ConversationHandler.states registers for `state`
StateHandlerMatches(state, m) ==
    IF state = WAITING_VOICE_ANSWER
    THEN FilterVoice(m) \/ FilterText(m)
    ELSE FilterText(m) /\ ~FilterCommand(m)

\* the update `m` of user `u` is dispatched to the handler of `state`
TextHandlerFor(u, m, state) ==
    /\ running
    /\ conv[u] = state
    /\ StateHandlerMatches(state, m)

\* ----------------------------------------------------------- registration
ask_gender == <<Reply("ASK_GENDER", 0, get_gender_keyboard)>>

\* entry_points=[CommandHandler('start', start_command)]: tried when the user has
\* no conversation
\* faulty variant of start_command: the test is `not respondent.gender`
start_command_by_gender(u, m) ==
    /\ running
    /\ conv[u] = NO_CONVERSATION
    /\ IsCommand(m, "/start")
    /\ IF ~HasSalt
       THEN /\ Raise(u, m, <<>>)
            /\ UNCHANGED <<settings, running, durable, user_data>>
       ELSE LET anonymous_id == generate_anonymous_id(u)
                rs == get_or_create_respondent(anonymous_id)
                respondent == get_respondent_in(rs, anonymous_id)
            IN  /\ user_data' = [user_data EXCEPT ![u].anonymous_id = anonymous_id]
                /\ respondents' = rs
                /\ IF respondent.gender = NULL
                   THEN Return(u, m, REGISTRATION_GENDER,
                               <<Reply("WELCOME", 0, NoKeyboard)>> \o ask_gender)
                   ELSE Return(u, m, MAIN_MENU,
                               <<Reply("WELCOME_BACK", 0, get_main_menu_keyboard)>>)
                /\ UNCHANGED <<settings, running, catalog, sessions, responses>>

start_command(u, m) ==
    /\ running
    /\ conv[u] = NO_CONVERSATION
    /\ IsCommand(m, "/start")
    /\ IF ~HasSalt
       THEN /\ Raise(u, m, <<>>)
            /\ UNCHANGED <<settings, running, durable, user_data>>
       ELSE LET anonymous_id == generate_anonymous_id(u)
                rs == get_or_create_respondent(anonymous_id)
                respondent == get_respondent_in(rs, anonymous_id)
            IN  /\ user_data' = [user_data EXCEPT ![u].anonymous_id = anonymous_id]
                /\ respondents' = rs
                /\ IF ~respondent.is_profile_complete
                   THEN Return(u, m, REGISTRATION_GENDER,
                               <<Reply("WELCOME", 0, NoKeyboard)>> \o ask_gender)
                   ELSE Return(u, m, MAIN_MENU,
                               <<Reply("WELCOME_BACK", 0, get_main_menu_keyboard)>>)
                /\ UNCHANGED <<settings, running, catalog, sessions, responses>>

RegistrationFrame == UNCHANGED <<settings, running, catalog, sessions, responses, user_data>>

handle_gender(u, m) ==
    /\ TextHandlerFor(u, m, REGISTRATION_GENDER)
    /\ LET anonymous_id == user_data[u].anonymous_id
       IN  IF Contains(m.text, <<"man", "Muzhskoy">>)
           THEN /\ respondents' = update_respondent(anonymous_id, [gender |-> "male"])
                /\ Return(u, m, REGISTRATION_AGE, <<Reply("ASK_AGE", 0, NoKeyboard)>>)
           ELSE IF Contains(m.text, <<"woman", "Zhenskiy">>)
           THEN /\ respondents' = update_respondent(anonymous_id, [gender |-> "female"])
                /\ Return(u, m, REGISTRATION_AGE, <<Reply("ASK_AGE", 0, NoKeyboard)>>)
           ELSE /\ respondents' = respondents
                /\ Return(u, m, REGISTRATION_GENDER,
                          <<Reply("GENDER_USE_BUTTONS", 0, get_gender_keyboard)>>)
    /\ RegistrationFrame

\* faulty variant of handle_age: the bounds themselves are refused (<=, >=)
handle_age_exclusive(u, m) ==
    /\ TextHandlerFor(u, m, REGISTRATION_AGE)
    /\ LET anonymous_id == user_data[u].anonymous_id
       IN  IF ~IsInt(m.text)
           THEN /\ respondents' = respondents
                /\ Return(u, m, REGISTRATION_AGE, <<Reply("AGE_NOT_A_NUMBER", 0, NoKeyboard)>>)
           ELSE IF int(m.text) <= MinAge \/ int(m.text) >= MaxAge
           THEN /\ respondents' = respondents
                /\ Return(u, m, REGISTRATION_AGE, <<Reply("AGE_OUT_OF_RANGE", 0, NoKeyboard)>>)
           ELSE /\ respondents' = update_respondent(anonymous_id, [age |-> int(m.text)])
                /\ Return(u, m, REGISTRATION_OCCUPATION,
                          <<Reply("ASK_OCCUPATION", 0, get_occupation_keyboard)>>)
    /\ RegistrationFrame

handle_age(u, m) ==
    /\ TextHandlerFor(u, m, REGISTRATION_AGE)
    /\ LET anonymous_id == user_data[u].anonymous_id
       IN  IF ~IsInt(m.text)
           THEN /\ respondents' = respondents
                /\ Return(u, m, REGISTRATION_AGE, <<Reply("AGE_NOT_A_NUMBER", 0, NoKeyboard)>>)
           ELSE IF int(m.text) < MinAge \/ int(m.text) > MaxAge
           THEN /\ respondents' = respondents
                /\ Return(u, m, REGISTRATION_AGE, <<Reply("AGE_OUT_OF_RANGE", 0, NoKeyboard)>>)
           ELSE /\ respondents' = update_respondent(anonymous_id, [age |-> int(m.text)])
                /\ Return(u, m, REGISTRATION_OCCUPATION,
                          <<Reply("ASK_OCCUPATION", 0, get_occupation_keyboard)>>)
    /\ RegistrationFrame

handle_occupation(u, m) ==
    /\ TextHandlerFor(u, m, REGISTRATION_OCCUPATION)
    /\ LET anonymous_id == user_data[u].anonymous_id
       IN  IF Contains(m.text, <<"cap">>) \/ Contains(m.text, <<"Uchus">>)
           THEN /\ respondents' = update_respondent(anonymous_id, [occupation_type |-> "student"])
                /\ Return(u, m, REGISTRATION_COURSE,
                          <<Reply("ASK_COURSE", 0, get_course_keyboard)>>)
           ELSE IF Contains(m.text, <<"case">>) \/ Contains(m.text, <<"Rabotayu">>)
           THEN /\ respondents' = update_respondent(anonymous_id, [occupation_type |-> "working"])
                /\ Return(u, m, REGISTRATION_EXPERIENCE,
                          <<Reply("ASK_EXPERIENCE", 0, NoKeyboard)>>)
           ELSE /\ respondents' = respondents
                /\ Return(u, m, REGISTRATION_OCCUPATION,
                          <<Reply("OCCUPATION_USE_BUTTONS", 0, get_occupation_keyboard)>>)
    /\ RegistrationFrame

complete_registration == <<Reply("REGISTRATION_DONE", 0, get_main_menu_keyboard)>>

\* faulty variant of handle_course: the range of the course is not looked at
handle_course_unchecked(u, m) ==
    /\ TextHandlerFor(u, m, REGISTRATION_COURSE)
    /\ LET anonymous_id == user_data[u].anonymous_id
       IN  IF ~IsInt(m.text)
           THEN /\ respondents' = respondents
                /\ Return(u, m, REGISTRATION_COURSE,
                          <<Reply("COURSE_USE_BUTTONS", 0, get_course_keyboard)>>)
           ELSE /\ respondents' = update_respondent(anonymous_id,
                        [university_course |-> int(m.text), is_profile_complete |-> TRUE])
                /\ Return(u, m, MAIN_MENU, complete_registration)
    /\ RegistrationFrame

handle_course(u, m) ==
    /\ TextHandlerFor(u, m, REGISTRATION_COURSE)
    /\ LET anonymous_id == user_data[u].anonymous_id
       IN  IF ~IsInt(m.text)
           THEN /\ respondents' = respondents
                /\ Return(u, m, REGISTRATION_COURSE,
                          <<Reply("COURSE_USE_BUTTONS", 0, get_course_keyboard)>>)
           ELSE IF int(m.text) < MinCourse \/ int(m.text) > MaxCourse
           THEN /\ respondents' = respondents
                /\ Return(u, m, REGISTRATION_COURSE,
                          <<Reply("COURSE_OUT_OF_RANGE", 0, get_course_keyboard)>>)
           ELSE /\ respondents' = update_respondent(anonymous_id,
                        [university_course |-> int(m.text), is_profile_complete |-> TRUE])
                /\ Return(u, m, MAIN_MENU, complete_registration)
    /\ RegistrationFrame

handle_experience(u, m) ==
    /\ TextHandlerFor(u, m, REGISTRATION_EXPERIENCE)
    /\ LET anonymous_id == user_data[u].anonymous_id
       IN  IF ~IsInt(m.text)
           THEN /\ respondents' = respondents
                /\ Return(u, m, REGISTRATION_EXPERIENCE,
                          <<Reply("EXPERIENCE_NOT_A_NUMBER", 0, NoKeyboard)>>)
           ELSE IF int(m.text) < MinExperience \/ int(m.text) > MaxExperience
           THEN /\ respondents' = respondents
                /\ Return(u, m, REGISTRATION_EXPERIENCE,
                          <<Reply("EXPERIENCE_OUT_OF_RANGE", 0, NoKeyboard)>>)
           ELSE /\ respondents' = update_respondent(anonymous_id,
                        [work_experience_years |-> int(m.text), is_profile_complete |-> TRUE])
                /\ Return(u, m, MAIN_MENU, complete_registration)
    /\ RegistrationFrame

\* ---------------------------------------------------------- Survey catalog
ActiveSurveys == {s \in surveys : s.is_active}

\* faulty variant of get_active_survey: the is_active filter is dropped
get_active_survey_unfiltered ==
    IF surveys = {}
    THEN 0
    ELSE (CHOOSE s \in surveys : \A o \in surveys : o.created_at <= s.created_at).id

\* faulty variant of get_active_survey: Meta.ordering = ['created_at']
get_active_survey_oldest ==
    IF ActiveSurveys = {}
    THEN 0
    ELSE (CHOOSE s \in ActiveSurveys : \A o \in ActiveSurveys : s.created_at <= o.created_at).id

\* Survey.objects.filter(is_active=True).first(), Meta.ordering = ['-created_at']; 0 is None
get_active_survey ==
    IF ActiveSurveys = {}
    THEN 0
    ELSE (CHOOSE s \in ActiveSurveys : \A o \in ActiveSurveys : o.created_at <= s.created_at).id

QuestionsOf(survey) == {q \in questions : q.survey = survey}
LeastOrder(rows) == {q.id : q \in {r \in rows : \A o \in rows : r.order <= o.order}}

\* faulty variant of get_first_question: order_by('-order')
get_first_question_descending(survey) ==
    {q.id : q \in {r \in QuestionsOf(survey) : \A o \in QuestionsOf(survey) : o.order <= r.order}}

\* survey.questions.order_by('order').first(): the candidates (rows of equal order
\* come in an order the database does not fix); {} is None
get_first_question(survey) == LeastOrder(QuestionsOf(survey))

\* faulty variant of get_next_question: order_by('-order')
get_next_question_descending(survey, current_order) ==
    LET later == {q \in QuestionsOf(survey) : q.order > current_order}
    IN  {q.id : q \in {r \in later : \A o \in later : o.order <= r.order}}

\* survey.questions.filter(order__gt=current_order).order_by('order').first()
get_next_question(survey, current_order) ==
    LeastOrder({q \in QuestionsOf(survey) : q.order > current_order})

OrNone(ids) == IF ids = {} THEN {0} ELSE ids

OptionsOf(question) == {o \in options : o.question = question}

RECURSIVE SortedByOrder(_)
SortedByOrder(rows) ==
    IF rows = {} THEN <<>> ELSE <<MinBy(rows)>> \o SortedByOrder(rows \ {MinBy(rows)})

\* list(question.options.order_by('order'))
get_question_options(question) == SortedByOrder(OptionsOf(question))

\* faulty variant of find_option_by_text: filter(text__iexact=text)
LowerAtom(a) == IF a = "Yes" THEN "yes" ELSE IF a = "No" THEN "no" ELSE a
Lower(text) == [i \in DOMAIN text |-> LowerAtom(text[i])]
find_option_by_text_iexact(question, text) ==
    LET found == {o \in OptionsOf(question) : Lower(o.text) = Lower(text)}
    IN  IF found = {} THEN 0 ELSE MinBy(found).id

\* question.options.filter(text=text).first(); 0 is None
find_option_by_text(question, text) ==
    LET found == {o \in OptionsOf(question) : o.text = text}
    IN  IF found = {} THEN 0 ELSE MinBy(found).id

get_choice_keyboard(opts) == [i \in 1..Len(opts) |-> opts[i].text] \o <<BTN_SKIP>>

\* ----------------------------------------------------------- Session store
HasSession(session_id) == session_id \in DOMAIN sessions
get_session(session_id) == sessions[session_id]

\* field advances counts the calls of move_to_next_question for the session (history)
create_survey_session(ss, user, survey) ==
    Append(ss, [id |-> Len(ss) + 1, user |-> user, survey |-> survey,
                status |-> "in_progress", current_question |-> 0,
                completed_at |-> NULL, advances |-> 0])

update_session_question(ss, session_id, question) ==
    UpdateSeqRow(ss, session_id, [current_question |-> question])

\* faulty variant of abandon_session: the status is never saved
abandon_session_unsaved(ss, session_id) == ss

abandon_session(ss, session_id) ==
    UpdateSeqRow(ss, session_id, [status |-> "abandoned"])

complete_session(ss, session_id) ==
    UpdateSeqRow(ss, session_id, [status |-> "completed", completed_at |-> "now"])

\* faulty variant of create_response: the payload fields are not passed on
create_response_without_payload(rs, session_id, question, fields) ==
    Append(rs, [session |-> session_id, question |-> question,
                text_answer |-> NullText, selected_option |-> 0,
                telegram_file_id |-> NULL])

create_response(rs, session_id, question, fields) ==
    Append(rs, SetFields([session |-> session_id, question |-> question,
                          text_answer |-> NullText, selected_option |-> 0,
                          telegram_file_id |-> NULL], fields))

count_completed_sessions(user) ==
    Cardinality({i \in DOMAIN sessions : sessions[i].user = user /\ sessions[i].status = "completed"})

count_in_progress_sessions(user) ==
    Cardinality({i \in DOMAIN sessions : sessions[i].user = user /\ sessions[i].status = "in_progress"})

\* ------------------------------------------------------ survey progression
KEEP_STATE == -2

\* ask_question: the state it returns (KEEP_STATE for its implicit None) and its reply
ask_question(question) ==
    LET q == Row(questions, question)
        skip_kb == IF ~q.is_required THEN get_skip_keyboard ELSE NoKeyboard
    IN  IF q.question_type = "text"
        THEN [state |-> WAITING_TEXT_ANSWER,
              replies |-> <<Reply("QUESTION_TEXT", q.order + 1, skip_kb)>>]
        ELSE IF q.question_type = "choice"
        THEN [state |-> WAITING_CHOICE_ANSWER,
              replies |-> <<Reply("QUESTION_CHOICE", q.order + 1,
                                  get_choice_keyboard(get_question_options(question)))>>]
        ELSE IF q.question_type = "voice"
        THEN [state |-> WAITING_VOICE_ANSWER,
              replies |-> <<Reply("QUESTION_VOICE", q.order + 1, skip_kb)>>]
        ELSE [state |-> KEEP_STATE, replies |-> <<>>]

ReturnOrKeep(u, m, state, replies) ==
    Return(u, m, IF state = KEEP_STATE THEN conv[u] ELSE state, replies)

\* update.message.text == <skip label> and not question.is_required
\* faulty variants of the skip test: is_required is not consulted; the label is
\* compared without its emoji
skip_requested_any(m, question) == m.text = LIT_SKIP
skip_requested_bare_label(m, question) ==
    m.text = <<"Propustit">> /\ ~Row(questions, question).is_required

\* faulty variant of the skip test: the `not` before is_required is lost
skip_requested_of_required(m, question) ==
    m.text = LIT_SKIP /\ Row(questions, question).is_required

skip_requested(m, question) ==
    m.text = LIT_SKIP /\ ~Row(questions, question).is_required

\* move_to_next_question, with `next_question` the row get_next_question returned (0: None)
move_to_next_question(u, m, session_id, next_question, replies) ==
    LET counted == UpdateSeqRow(sessions, session_id,
                                [advances |-> sessions[session_id].advances + 1])
    IN  IF next_question # 0
        THEN /\ sessions' = update_session_question(counted, session_id, next_question)
             /\ ReturnOrKeep(u, m, ask_question(next_question).state,
                             replies \o ask_question(next_question).replies)
        ELSE /\ sessions' = complete_session(counted, session_id)
             /\ Return(u, m, MAIN_MENU,
                       replies \o <<Reply("SURVEY_COMPLETED", 0, get_main_menu_keyboard)>>)

\* the rows get_next_question may return to move_to_next_question for `session`
NextOf(session) ==
    OrNone(get_next_question(session.survey, Row(questions, session.current_question).order))

AnswerFrame == UNCHANGED <<settings, running, catalog, respondents, user_data>>

\* the handler raised before it wrote anything
RaiseUntouched(u, m) ==
    /\ Raise(u, m, <<>>)
    /\ UNCHANGED <<sessions, responses>>

handle_text_answer(u, m) ==
    /\ TextHandlerFor(u, m, WAITING_TEXT_ANSWER)
    /\ LET session_id == user_data[u].session_id
           session == get_session(session_id)
           question == session.current_question
       IN  IF ~HasSession(session_id)
           THEN RaiseUntouched(u, m)
           ELSE IF question = 0
           \* None.is_required (AttributeError) or a Response without question (IntegrityError)
           THEN RaiseUntouched(u, m)
           ELSE IF skip_requested(m, question)
           THEN \E nq \in NextOf(session) :
                    /\ responses' = responses
                    /\ move_to_next_question(u, m, session_id, nq, <<>>)
           ELSE \E nq \in NextOf(session) :
                    /\ responses' = create_response(responses, session_id, question,
                                                    [text_answer |-> m.text])
                    /\ move_to_next_question(u, m, session_id, nq,
                                             <<Reply("ANSWER_SAVED", 0, NoKeyboard)>>)
    /\ AnswerFrame

handle_choice_answer(u, m) ==
    /\ TextHandlerFor(u, m, WAITING_CHOICE_ANSWER)
    /\ LET session_id == user_data[u].session_id
           session == get_session(session_id)
           question == session.current_question
           selected_option == find_option_by_text(question, m.text)
       IN  IF ~HasSession(session_id)
           THEN RaiseUntouched(u, m)
           ELSE IF question = 0
           \* None.is_required or None.options (AttributeError)
           THEN RaiseUntouched(u, m)
           ELSE IF skip_requested(m, question)
           THEN \E nq \in NextOf(session) :
                    /\ responses' = responses
                    /\ move_to_next_question(u, m, session_id, nq, <<>>)
           ELSE IF selected_option = 0
           THEN /\ UNCHANGED <<sessions, responses>>
                /\ Return(u, m, WAITING_CHOICE_ANSWER,
                          <<Reply("CHOOSE_AN_OPTION", 0,
                                  get_choice_keyboard(get_question_options(question)))>>)
           ELSE \E nq \in NextOf(session) :
                    /\ responses' = create_response(responses, session_id, question,
                                                    [selected_option |-> selected_option])
                    /\ move_to_next_question(u, m, session_id, nq,
                                             <<Reply("ANSWER_SAVED", 0, NoKeyboard)>>)
    /\ AnswerFrame

handle_voice_answer(u, m) ==
    /\ TextHandlerFor(u, m, WAITING_VOICE_ANSWER)
    /\ LET session_id == user_data[u].session_id
           session == get_session(session_id)
           question == session.current_question
       IN  IF ~HasSession(session_id)
           THEN RaiseUntouched(u, m)
           ELSE IF question = 0
           \* None.is_required (AttributeError) or a Response without question (IntegrityError)
           THEN RaiseUntouched(u, m)
           ELSE IF ~FilterVoice(m)
           THEN IF skip_requested(m, question)
                THEN \E nq \in NextOf(session) :
                         /\ responses' = responses
                         /\ move_to_next_question(u, m, session_id, nq, <<>>)
                ELSE /\ UNCHANGED <<sessions, responses>>
                     /\ Return(u, m, WAITING_VOICE_ANSWER,
                               <<Reply("SEND_A_VOICE_MESSAGE", 0,
                                       IF ~Row(questions, question).is_required
                                       THEN get_skip_keyboard ELSE NoKeyboard)>>)
           ELSE \E nq \in NextOf(session) :
                    /\ responses' = create_response(responses, session_id, question,
                                                    [telegram_file_id |-> m.file_id])
                    /\ move_to_next_question(u, m, session_id, nq,
                                             <<Reply("VOICE_SAVED", 0, NoKeyboard)>>)
    /\ AnswerFrame

\* ---------------------------------------------------------------- main menu
MenuFrame == UNCHANGED <<settings, running, catalog, respondents>>

start_survey(u, m) ==
    LET anonymous_id == user_data[u].anonymous_id
        respondent == get_respondent(anonymous_id)
        active_survey == get_active_survey
        created == create_survey_session(sessions, respondent.id, active_survey)
        session_id == Len(created)
    IN  IF ~HasRespondent(respondents, anonymous_id)
        THEN /\ Raise(u, m, <<>>)
             /\ UNCHANGED <<sessions, responses, user_data>>
        ELSE IF active_survey = 0
        THEN /\ UNCHANGED <<sessions, responses, user_data>>
             /\ Return(u, m, MAIN_MENU,
                       <<Reply("NO_ACTIVE_SURVEY", 0, get_main_menu_keyboard)>>)
        ELSE /\ user_data' = [user_data EXCEPT ![u].session_id = session_id]
             /\ responses' = responses
             /\ \E first_question \in OrNone(get_first_question(active_survey)) :
                   IF first_question = 0
                   THEN /\ sessions' = abandon_session(created, session_id)
                        /\ Return(u, m, MAIN_MENU,
                                  <<Reply("SURVEY_NOT_READY", 0, get_main_menu_keyboard)>>)
                   ELSE /\ sessions' = update_session_question(created, session_id, first_question)
                        /\ ReturnOrKeep(u, m, ask_question(first_question).state,
                                        <<Reply("SURVEY_INTRO", 0, NoKeyboard)>>
                                            \o ask_question(first_question).replies)

show_info(u, m) ==
    /\ Return(u, m, MAIN_MENU, <<Reply("INFO", 0, get_main_menu_keyboard)>>)
    /\ UNCHANGED <<sessions, responses, user_data>>

\* show_results and show_profile read the respondent of the context and reply
show_results(u, m) ==
    /\ IF ~HasRespondent(respondents, user_data[u].anonymous_id)
       THEN Raise(u, m, <<>>)
       ELSE Return(u, m, MAIN_MENU,
                   <<Reply("RESULTS",
                           count_completed_sessions(get_respondent(user_data[u].anonymous_id).id),
                           get_main_menu_keyboard)>>)
    /\ UNCHANGED <<sessions, responses, user_data>>

show_profile(u, m) ==
    /\ IF ~HasRespondent(respondents, user_data[u].anonymous_id)
       THEN Raise(u, m, <<>>)
       ELSE Return(u, m, MAIN_MENU, <<Reply("PROFILE", 0, get_main_menu_keyboard)>>)
    /\ UNCHANGED <<sessions, responses, user_data>>

handle_main_menu(u, m) ==
    /\ TextHandlerFor(u, m, MAIN_MENU)
    /\ IF m.text = LIT_START_SURVEY THEN start_survey(u, m)
       ELSE IF m.text = LIT_INFO THEN show_info(u, m)
       ELSE IF m.text = LIT_RESULTS THEN show_results(u, m)
       ELSE IF m.text = LIT_PROFILE THEN show_profile(u, m)
       ELSE /\ Return(u, m, MAIN_MENU, <<Reply("USE_MENU_BUTTONS", 0, get_main_menu_keyboard)>>)
            /\ UNCHANGED <<sessions, responses, user_data>>
    /\ MenuFrame

\* ------------------------------------------------------------------- cancel
\* fallbacks=[CommandHandler('cancel', cancel)]: tried in every conversation state
\* when no handler of the state takes the update
\* faulty variant of cancel: the responses of the abandoned session are deleted
cancel_purging(u, m) ==
    /\ running
    /\ conv[u] # NO_CONVERSATION
    /\ ~StateHandlerMatches(conv[u], m)
    /\ IsCommand(m, "/cancel")
    /\ LET session_id == user_data[u].session_id
       IN  IF session_id # 0 /\ HasSession(session_id)
           THEN /\ sessions' = abandon_session(sessions, session_id)
                /\ responses' = SelectSeq(responses, LAMBDA r : r.session # session_id)
                /\ Return(u, m, MAIN_MENU,
                          <<Reply("CANCELLED", 0, get_main_menu_keyboard)>>)
           ELSE /\ UNCHANGED <<sessions, responses>>
                /\ Return(u, m, MAIN_MENU, <<Reply("CANCELLED", 0, get_main_menu_keyboard)>>)
    /\ UNCHANGED <<settings, running, catalog, respondents, user_data>>

cancel(u, m) ==
    /\ running
    /\ conv[u] # NO_CONVERSATION
    /\ ~StateHandlerMatches(conv[u], m)
    /\ IsCommand(m, "/cancel")
    /\ LET session_id == user_data[u].session_id
       IN  IF session_id # 0
           THEN IF ~HasSession(session_id)
                THEN /\ Raise(u, m, <<>>)
                     /\ sessions' = sessions
                ELSE /\ sessions' = abandon_session(sessions, session_id)
                     /\ Return(u, m, MAIN_MENU,
                               <<Reply("CANCELLED", 0, get_main_menu_keyboard)>>)
           ELSE /\ sessions' = sessions
                /\ Return(u, m, MAIN_MENU, <<Reply("CANCELLED", 0, get_main_menu_keyboard)>>)
    /\ UNCHANGED <<settings, running, catalog, respondents, responses, user_data>>

\* ------------------------------------------------------------ initial state
\* The stores hold a catalog the administrator has entered: two surveys, the
\* questions of survey 1 with the order create_question gave them (1, 2, ...), the
\* second one possibly moved to order 1 by update_question, and the options "Yes",
\* "No" of each choice question.
InitialOptions(qs) ==
    UNION {{[id |-> 2 * q.id - 1, question |-> q.id, text |-> <<"Yes">>, order |-> 1],
            [id |-> 2 * q.id, question |-> q.id, text |-> <<"No">>, order |-> 2]}
           : q \in {r \in qs : r.question_type = "choice"}}

InitialQuestions(n, types, required, orders) ==
    {[id |-> i, survey |-> 1, question_type |-> types[i], order |-> orders[i],
      is_required |-> required[i]] : i \in 1..n}

InitialCatalog ==
    /\ \E a1, a2 \in BOOLEAN :
          surveys = {[id |-> 1, is_active |-> a1, created_at |-> 1],
                     [id |-> 2, is_active |-> a2, created_at |-> 2]}
    /\ \E n \in 0..MaxQuestions :
          \E types \in [1..n -> QUESTION_TYPES], required \in [1..n -> BOOLEAN],
             moved \in BOOLEAN :
                questions = InitialQuestions(n, types, required,
                                [i \in 1..n |-> IF moved /\ i = 2 THEN 1 ELSE i])
    /\ options = InitialOptions(questions)

Init ==
    /\ settings \in [ANONYMOUS_SALT : {"", "salt"}, TELEGRAM_BOT_TOKEN : {"", "token"}]
    /\ running = FALSE
    /\ InitialCatalog
    /\ respondents = <<>>
    /\ sessions = <<>>
    /\ responses = <<>>
    /\ conv = [u \in Users |-> NO_CONVERSATION]
    /\ user_data = [u \in Users |-> [anonymous_id |-> NoToken, session_id |-> 0]]
    /\ last = NoUpdate

\* ------------------------------------------------------------------ inputs
GenderInputs == {TextMsg(BTN_MALE), TextMsg(<<"hello">>)}
AgeInputs == {TextMsg(<<"16">>), TextMsg(<<"15">>), TextMsg(<<"hello">>)}
OccupationInputs == {TextMsg(BTN_STUDENT), TextMsg(BTN_WORKING), TextMsg(<<"hello">>)}
CourseInputs == {TextMsg(<<"1">>), TextMsg(<<"7">>)}
ExperienceInputs == {TextMsg(<<"0">>), TextMsg(<<"61">>)}
MenuInputs ==
    {TextMsg(LIT_START_SURVEY), TextMsg(BTN_INFO), TextMsg(BTN_MY_SURVEYS),
     TextMsg(LIT_RESULTS), TextMsg(BTN_PROFILE)}
SurveyMenuInputs == {TextMsg(LIT_START_SURVEY), TextMsg(BTN_MY_SURVEYS)}
TextAnswerInputs == {TextMsg(<<"Yes">>), TextMsg(LIT_SKIP)}
ChoiceAnswerInputs ==
    {TextMsg(<<"Yes">>), TextMsg(<<"No">>), TextMsg(<<"yes">>), TextMsg(<<"Yes", " ">>),
     TextMsg(LIT_SKIP)}
VoiceAnswerInputs ==
    {VoiceMsg("file1"), TextMsg(<<"Yes">>), TextMsg(LIT_SKIP), TextMsg(<<"/cancel">>)}

\* the updates of user u, at most `cap` sessions being started in a run
Bot(u, cap) ==
    \/ start_command(u, TextMsg(<<"/start">>))
    \/ \E m \in GenderInputs : handle_gender(u, m)
    \/ \E m \in AgeInputs : handle_age(u, m)
    \/ \E m \in OccupationInputs : handle_occupation(u, m)
    \/ \E m \in CourseInputs : handle_course(u, m)
    \/ \E m \in ExperienceInputs : handle_experience(u, m)
    \/ \E m \in MenuInputs : handle_main_menu(u, m) /\ Len(sessions') <= cap
    \/ \E m \in TextAnswerInputs : handle_text_answer(u, m)
    \/ \E m \in ChoiceAnswerInputs : handle_choice_answer(u, m)
    \/ \E m \in VoiceAnswerInputs : handle_voice_answer(u, m)
    \/ cancel(u, TextMsg(<<"/cancel">>))

Next ==
    \/ RunBot
    \/ StopBot
    \/ \E u \in Users : Bot(u, MaxSessions)

Spec == Init /\ [][Next]_vars

\* ------------------------------------------- the survey of a registered user
\* The state after a respondent has registered and reached the main menu.
RegisteredRespondent(u) ==
    SetFields(NewRespondent(1, <<"salt", u>>),
              [gender |-> "male", age |-> 16, occupation_type |-> "student",
               university_course |-> 1, is_profile_complete |-> TRUE])

InitSurvey ==
    /\ settings = [ANONYMOUS_SALT |-> "salt", TELEGRAM_BOT_TOKEN |-> "token"]
    /\ running = TRUE
    /\ InitialCatalog
    /\ respondents = <<RegisteredRespondent(7)>>
    /\ sessions = <<>>
    /\ responses = <<>>
    /\ conv = [u \in Users |-> MAIN_MENU]
    /\ user_data = [u \in Users |-> [anonymous_id |-> <<"salt", u>>, session_id |-> 0]]
    /\ last = NoUpdate

\* One run of the bot process: /start is an entry point only, so within a run a
\* conversation that is in the main menu meets the menu, the answer handlers and
\* the cancel fallback.
NextSurvey ==
    \E u \in Users :
          \/ \E m \in SurveyMenuInputs :
                handle_main_menu(u, m) /\ Len(sessions') <= MaxSurveySessions
          \/ \E m \in TextAnswerInputs : handle_text_answer(u, m)
          \/ \E m \in ChoiceAnswerInputs : handle_choice_answer(u, m)
          \/ \E m \in VoiceAnswerInputs : handle_voice_answer(u, m)
          \/ cancel(u, TextMsg(<<"/cancel">>))

SpecSurvey == InitSurvey /\ [][NextSurvey]_vars

\* ------------------------------------------------------------ registration
\* The registration of a new respondent, the process stopping and starting again
\* at any point; the catalog is empty.
AllGenderInputs ==
    {TextMsg(BTN_MALE), TextMsg(BTN_FEMALE), TextMsg(<<"hello">>),
     TextMsg(<<"ne", "man", "Muzhskoy">>)}
AllAgeInputs ==
    {TextMsg(<<n>>) : n \in Numerals} \cup {TextMsg(<<"hello">>), TextMsg(<<"16", "let">>)}
AllCourseInputs ==
    {TextMsg(<<"0">>), TextMsg(<<"1">>), TextMsg(<<"6">>), TextMsg(<<"7">>), TextMsg(<<"hello">>)}
AllExperienceInputs ==
    {TextMsg(<<"-1">>), TextMsg(<<"0">>), TextMsg(<<"60">>), TextMsg(<<"61">>),
     TextMsg(<<"hello">>)}

InitRegistration ==
    /\ settings = [ANONYMOUS_SALT |-> "salt", TELEGRAM_BOT_TOKEN |-> "token"]
    /\ running = FALSE
    /\ surveys = {}
    /\ questions = {}
    /\ options = {}
    /\ respondents = <<>>
    /\ sessions = <<>>
    /\ responses = <<>>
    /\ conv = [u \in Users |-> NO_CONVERSATION]
    /\ user_data = [u \in Users |-> [anonymous_id |-> NoToken, session_id |-> 0]]
    /\ last = NoUpdate

NextRegistration ==
    \/ RunBot
    \/ StopBot
    \/ \E u \in Users :
          \/ start_command(u, TextMsg(<<"/start">>))
          \/ \E m \in AllGenderInputs : handle_gender(u, m)
          \/ \E m \in AllAgeInputs : handle_age(u, m)
          \/ \E m \in OccupationInputs : handle_occupation(u, m)
          \/ \E m \in AllCourseInputs : handle_course(u, m)
          \/ \E m \in AllExperienceInputs : handle_experience(u, m)
          \/ cancel(u, TextMsg(<<"/cancel">>))

SpecRegistration == InitRegistration /\ [][NextRegistration]_vars

\* ------------------------------------------------ a stop inside one handler
\* An answer handler awaits create_response and then move_to_next_question; each
\* is a save of its own and no transaction spans them. The process stops after
\* create_response has written its row and before move_to_next_question saved the
\* session.
StopAfterCreateResponse(u, m) ==
    /\ running
    /\ conv[u] \in {WAITING_TEXT_ANSWER, WAITING_CHOICE_ANSWER, WAITING_VOICE_ANSWER}
    /\ StateHandlerMatches(conv[u], m)
    /\ LET session_id == user_data[u].session_id
           session == get_session(session_id)
           question == session.current_question
       IN  /\ HasSession(session_id)
           /\ question # 0
           /\ \/ /\ conv[u] = WAITING_TEXT_ANSWER
                 /\ ~skip_requested(m, question)
                 /\ responses' = create_response(responses, session_id, question,
                                                 [text_answer |-> m.text])
              \/ /\ conv[u] = WAITING_CHOICE_ANSWER
                 /\ ~skip_requested(m, question)
                 /\ find_option_by_text(question, m.text) # 0
                 /\ responses' = create_response(responses, session_id, question,
                                    [selected_option |-> find_option_by_text(question, m.text)])
              \/ /\ conv[u] = WAITING_VOICE_ANSWER
                 /\ FilterVoice(m)
                 /\ responses' = create_response(responses, session_id, question,
                                                 [telegram_file_id |-> m.file_id])
    /\ running' = FALSE
    /\ conv' = [v \in Users |-> NO_CONVERSATION]
    /\ user_data' = [v \in Users |-> [anonymous_id |-> NoToken, session_id |-> 0]]
    /\ last' = NoUpdate
    /\ UNCHANGED <<settings, catalog, respondents, sessions>>

\* the survey of a registered user, the process stopping between two updates or
\* inside an answer handler, and starting again
NextCrash ==
    \/ NextSurvey
    \/ RunBot
    \/ StopBot
    \/ \E u \in Users :
          \/ start_command(u, TextMsg(<<"/start">>))
          \/ \E m \in TextAnswerInputs \cup ChoiceAnswerInputs \cup VoiceAnswerInputs :
                StopAfterCreateResponse(u, m)

SpecCrash == InitSurvey /\ [][NextCrash]_vars

\* ------------------------------------------------------- the administrator
\* views.delete_question: Question.delete() removes the row, its options and its
\* responses (on_delete=CASCADE) and nulls the current_question of the sessions
\* that point at it (on_delete=SET_NULL). No update of the bot is handled.
delete_question(question_id) ==
    /\ \E q \in questions : q.id = question_id
    /\ questions' = {q \in questions : q.id # question_id}
    /\ options' = {o \in options : o.question # question_id}
    /\ responses' = SelectSeq(responses, LAMBDA r : r.question # question_id)
    /\ sessions' = [i \in DOMAIN sessions |->
                       IF sessions[i].current_question = question_id
                       THEN [sessions[i] EXCEPT !.current_question = 0]
                       ELSE sessions[i]]
    /\ last' = NoUpdate
    /\ UNCHANGED <<settings, running, surveys, respondents, conv, user_data>>

\* the survey of a registered user while the administrator deletes questions
NextAdmin ==
    \/ NextSurvey
    \/ \E question_id \in 1..MaxQuestions : delete_question(question_id)

SpecAdmin == InitSurvey /\ [][NextAdmin]_vars

\* ------------------------------------------------------------- traversal
\* A registered user and an active survey 1 of TraversalQuestions questions whose
\* orders the administrator has set to any values (update_question), and one
\* question of the inactive survey 2; the types follow the ids in turn.
TraversalQuestions == 3

TypeOfId(i) == IF i % 3 = 1 THEN "text" ELSE IF i % 3 = 2 THEN "choice" ELSE "voice"

InitTraversal ==
    /\ settings = [ANONYMOUS_SALT |-> "salt", TELEGRAM_BOT_TOKEN |-> "token"]
    /\ running = TRUE
    /\ surveys = {[id |-> 1, is_active |-> TRUE, created_at |-> 1],
                  [id |-> 2, is_active |-> FALSE, created_at |-> 2]}
    /\ \E orders \in [1..(TraversalQuestions + 1) -> 1..TraversalQuestions] :
          questions = {[id |-> i,
                        survey |-> IF i <= TraversalQuestions THEN 1 ELSE 2,
                        question_type |-> TypeOfId(i), order |-> orders[i],
                        is_required |-> TRUE] : i \in 1..(TraversalQuestions + 1)}
    /\ options = InitialOptions(questions)
    /\ respondents = <<RegisteredRespondent(7)>>
    /\ sessions = <<>>
    /\ responses = <<>>
    /\ conv = [u \in Users |-> MAIN_MENU]
    /\ user_data = [u \in Users |-> [anonymous_id |-> <<"salt", u>>, session_id |-> 0]]
    /\ last = NoUpdate

\* the respondent starts the survey, gives each question an answer it accepts, or
\* cancels
NextTraversal ==
    \E u \in Users :
          \/ /\ handle_main_menu(u, TextMsg(LIT_START_SURVEY))
             /\ Len(sessions') <= MaxSurveySessions
          \/ handle_text_answer(u, TextMsg(<<"Yes">>))
          \/ handle_choice_answer(u, TextMsg(<<"Yes">>))
          \/ handle_voice_answer(u, VoiceMsg("file1"))
          \/ cancel(u, TextMsg(<<"/cancel">>))

SpecTraversal == InitTraversal /\ [][NextTraversal]_vars

\* ------------------------------------------------- edits of a live survey
\* views.update_question: the keys present in the request body are assigned and
\* the row is saved; `data` is a record of some of question_type, order, is_required
update_question(question_id, data) ==
    /\ \E q \in questions : q.id = question_id
    /\ questions' = {IF q.id = question_id THEN SetFields(q, data) ELSE q : q \in questions}
    /\ last' = NoUpdate
    /\ UNCHANGED <<settings, running, surveys, options, respondents, sessions, responses,
                   conv, user_data>>

\* views.delete_option: QuestionOption.delete() removes the row and nulls the
\* selected_option of the responses that point at it (on_delete=SET_NULL)
delete_option(option_id) ==
    /\ \E o \in options : o.id = option_id
    /\ options' = {o \in options : o.id # option_id}
    /\ responses' = [i \in DOMAIN responses |->
                        IF responses[i].selected_option = option_id
                        THEN [responses[i] EXCEPT !.selected_option = 0]
                        ELSE responses[i]]
    /\ last' = NoUpdate
    /\ UNCHANGED <<settings, running, surveys, questions, respondents, sessions,
                   conv, user_data>>

\* the bodies the administrator posts to update_question
OrderEdits == {[order |-> o] : o \in 1..3}
TypeEdits == {[question_type |-> t] : t \in QUESTION_TYPES}

\* A registered user, the active survey 1 with a text question of order 1 and a
\* choice question of order 2, both required.
InitEditing ==
    /\ settings = [ANONYMOUS_SALT |-> "salt", TELEGRAM_BOT_TOKEN |-> "token"]
    /\ running = TRUE
    /\ surveys = {[id |-> 1, is_active |-> TRUE, created_at |-> 1]}
    /\ questions = InitialQuestions(2, <<"text", "choice">>, <<TRUE, TRUE>>, <<1, 2>>)
    /\ options = InitialOptions(questions)
    /\ respondents = <<RegisteredRespondent(7)>>
    /\ sessions = <<>>
    /\ responses = <<>>
    /\ conv = [u \in Users |-> MAIN_MENU]
    /\ user_data = [u \in Users |-> [anonymous_id |-> <<"salt", u>>, session_id |-> 0]]
    /\ last = NoUpdate

\* the respondent takes the survey while the administrator changes the orders of
\* its questions; at most MaxResponses responses are written
MaxResponses == 3

NextReorder ==
    \/ \E u \in Users :
          \/ /\ handle_main_menu(u, TextMsg(LIT_START_SURVEY))
             /\ Len(sessions') <= MaxSurveySessions
          \/ /\ handle_text_answer(u, TextMsg(<<"Yes">>))
             /\ Len(responses') <= MaxResponses
          \/ /\ handle_choice_answer(u, TextMsg(<<"Yes">>))
             /\ Len(responses') <= MaxResponses
          \/ cancel(u, TextMsg(<<"/cancel">>))
    \/ \E question_id \in 1..2, data \in OrderEdits : update_question(question_id, data)

SpecReorder == InitEditing /\ [][NextReorder]_vars

\* the respondent takes the survey while the administrator changes the types of
\* its questions and deletes options
NextEditing ==
    \/ NextTraversal
    \/ \E question_id \in 1..2, data \in TypeEdits : update_question(question_id, data)
    \/ \E option_id \in 1..4 : delete_option(option_id)

SpecEditing == InitEditing /\ [][NextEditing]_vars

\* ------------------------------------------------- building the catalog
MaxCatalogQuestions == 3

MaxOf(numbers) == CHOOSE n \in numbers : \A o \in numbers : o <= n

\* views.create_question: order = (Max('order') of the survey's questions or 0) + 1.
\* The new id is the greatest id plus one: a deleted row leaves no reference
\* behind (CASCADE, SET_NULL), so its id is as good as new.
create_question(survey_id, question_type, is_required) ==
    LET max_order == IF QuestionsOf(survey_id) = {}
                     THEN 0
                     ELSE MaxOf({q.order : q \in QuestionsOf(survey_id)})
        id == IF questions = {} THEN 1 ELSE MaxOf({q.id : q \in questions}) + 1
    IN  /\ \E sv \in surveys : sv.id = survey_id
        /\ id <= MaxCatalogQuestions
        /\ questions' = questions \cup
                            {[id |-> id, survey |-> survey_id, question_type |-> question_type,
                              order |-> max_order + 1, is_required |-> is_required]}
        /\ last' = NoUpdate
        /\ UNCHANGED <<settings, running, surveys, options, respondents, sessions,
                       responses, conv, user_data>>

\* A registered user and two surveys without questions, survey 1 active.
InitCatalog ==
    /\ settings = [ANONYMOUS_SALT |-> "salt", TELEGRAM_BOT_TOKEN |-> "token"]
    /\ running = TRUE
    /\ surveys = {[id |-> 1, is_active |-> TRUE, created_at |-> 1],
                  [id |-> 2, is_active |-> FALSE, created_at |-> 2]}
    /\ questions = {}
    /\ options = {}
    /\ respondents = <<RegisteredRespondent(7)>>
    /\ sessions = <<>>
    /\ responses = <<>>
    /\ conv = [u \in Users |-> MAIN_MENU]
    /\ user_data = [u \in Users |-> [anonymous_id |-> <<"salt", u>>, session_id |-> 0]]
    /\ last = NoUpdate

\* the administrator creates, reorders and deletes questions
NextCatalog ==
    \/ \E survey_id \in SurveyIds, question_type \in QUESTION_TYPES :
          create_question(survey_id, question_type, TRUE)
    \/ \E question_id \in 1..MaxCatalogQuestions, data \in OrderEdits :
          update_question(question_id, data)
    \/ \E question_id \in 1..MaxCatalogQuestions : delete_question(question_id)

SpecCatalog == InitCatalog /\ [][NextCatalog]_vars

\* the administrator creates the questions of the surveys, nothing else, while
\* the respondent takes the active survey
NextCreate ==
    \/ \E survey_id \in SurveyIds, question_type \in QUESTION_TYPES :
          create_question(survey_id, question_type, TRUE)
    \/ NextTraversal

SpecCreate == InitCatalog /\ [][NextCreate]_vars

\* ---------------------------------------------------------- two respondents
\* Two users write to the running bot in any interleaving: user 7 has registered
\* in an earlier run, user 8 registers now, and both take the active survey, a text
\* question followed by a choice question. At most MaxTwoSessions sessions are
\* started.
TwoUsers == {7, 8}
MaxTwoSessions == 2

InitTwoUsers ==
    /\ settings = [ANONYMOUS_SALT |-> "salt", TELEGRAM_BOT_TOKEN |-> "token"]
    /\ running = TRUE
    /\ surveys = {[id |-> 1, is_active |-> TRUE, created_at |-> 1]}
    /\ questions = InitialQuestions(2, <<"text", "choice">>, <<TRUE, TRUE>>, <<1, 2>>)
    /\ options = InitialOptions(questions)
    /\ respondents = <<RegisteredRespondent(7)>>
    /\ sessions = <<>>
    /\ responses = <<>>
    /\ conv = [u \in TwoUsers |-> NO_CONVERSATION]
    /\ user_data = [u \in TwoUsers |-> [anonymous_id |-> NoToken, session_id |-> 0]]
    /\ last = NoUpdate

NextTwoUsers ==
    \E u \in TwoUsers :
          \/ start_command(u, TextMsg(<<"/start">>))
          \/ handle_gender(u, TextMsg(BTN_FEMALE))
          \/ handle_age(u, TextMsg(<<"60">>))
          \/ \E m \in {TextMsg(BTN_STUDENT), TextMsg(BTN_WORKING)} : handle_occupation(u, m)
          \/ handle_course(u, TextMsg(<<"1">>))
          \/ handle_experience(u, TextMsg(<<"0">>))
          \/ /\ handle_main_menu(u, TextMsg(LIT_START_SURVEY))
             /\ Len(sessions') <= MaxTwoSessions
          \/ handle_text_answer(u, TextMsg(<<"Yes">>))
          \/ handle_choice_answer(u, IF u = 7 THEN TextMsg(<<"Yes">>) ELSE TextMsg(<<"No">>))
          \/ cancel(u, TextMsg(<<"/cancel">>))

SpecTwoUsers == InitTwoUsers /\ [][NextTwoUsers]_vars

\* ------------------------------------------------------------- activation
\* views.update_survey: the keys present in the request body are assigned and
\* the row is saved; `data` is a record with is_active (title and description
\* are not part of the state)
update_survey(survey_id, data) ==
    /\ \E sv \in surveys : sv.id = survey_id
    /\ surveys' = {IF sv.id = survey_id THEN SetFields(sv, data) ELSE sv : sv \in surveys}
    /\ last' = NoUpdate
    /\ UNCHANGED <<settings, running, questions, options, respondents, sessions, responses,
                   conv, user_data>>

\* A registered user and three surveys created one after the other, none active
\* yet, with one required question each: a text, a choice and a voice question.
InitActivation ==
    /\ settings = [ANONYMOUS_SALT |-> "salt", TELEGRAM_BOT_TOKEN |-> "token"]
    /\ running = TRUE
    /\ surveys = {[id |-> i, is_active |-> FALSE, created_at |-> i] : i \in 1..3}
    /\ questions = {[id |-> i, survey |-> i, question_type |-> TypeOfId(i), order |-> 1,
                     is_required |-> TRUE] : i \in 1..3}
    /\ options = InitialOptions(questions)
    /\ respondents = <<RegisteredRespondent(7)>>
    /\ sessions = <<>>
    /\ responses = <<>>
    /\ conv = [u \in Users |-> MAIN_MENU]
    /\ user_data = [u \in Users |-> [anonymous_id |-> <<"salt", u>>, session_id |-> 0]]
    /\ last = NoUpdate

\* the administrator switches surveys on and off in any order while the
\* respondent uses the bot
NextActivation ==
    \/ \E survey_id \in 1..3, is_active \in BOOLEAN :
          update_survey(survey_id, [is_active |-> is_active])
    \/ NextTraversal

SpecActivation == InitActivation /\ [][NextActivation]_vars

\* ======================================================================
\* Properties
\* ======================================================================
Awaiting == {WAITING_TEXT_ANSWER, WAITING_CHOICE_ANSWER, WAITING_VOICE_ANSWER}

\* the session the conversation of u is bound to (context.user_data['session_id'])
ActiveSession(u) == user_data[u].session_id
ResponsesOf(session_id) == SelectSeq(responses, LAMBDA r : r.session = session_id)
DistinctOrders(rows) == \A a, b \in rows : a.order = b.order => a.id = b.id
\* the number of rows of `rows` that come before question `id` in ascending order
Rank(rows, id) == Cardinality({o \in rows : o.order < Row(questions, id).order})
RepliedWith(tag) == \E i \in DOMAIN last.replies : last.replies[i].tag = tag
\* the step handles the update m of user u
Handles(u, m) == last'.user = u /\ last'.msg = m
\* ---------------------------------------------------------------------- C1
C1Case(session_id) ==
    LET s == sessions[session_id]
    IN  /\ Cardinality(QuestionsOf(s.survey)) >= 1
        /\ DistinctOrders(QuestionsOf(s.survey))
        /\ Len(ResponsesOf(session_id)) = s.advances

C1Progress(session_id) ==
    LET s == sessions[session_id]
        Q == QuestionsOf(s.survey)
        R == ResponsesOf(session_id)
    IN  /\ s.advances <= Cardinality(Q)
        /\ \A i \in 1..Len(R) :
              /\ HasRow(Q, R[i].question)
              /\ Rank(Q, R[i].question) = i - 1
        /\ (s.advances = Cardinality(Q)) <=> (s.completed_at # NULL)
        /\ s.advances < Cardinality(Q) =>
              /\ HasRow(Q, s.current_question)
              /\ Rank(Q, s.current_question) = s.advances

\* C1: in a survey of N >= 1 questions with pairwise distinct orders (the catalog is
\* not edited), a session whose every Advance followed an accepted, non-skip answer
\* has one Response per Advance, for the questions in ascending order; it never
\* advances more than N times, it is completed exactly when it has advanced N times,
\* and the step of the N-th Advance leaves it in status completed with N Responses.
C1_FullAnswerSequenceCompletes ==
    [][\A sid \in DOMAIN sessions' :
          C1Case(sid)' =>
              /\ C1Progress(sid)'
              /\ (/\ sid \in DOMAIN sessions
                  /\ sessions'[sid].advances = Cardinality(QuestionsOf(sessions[sid].survey))
                  /\ sessions[sid].advances < sessions'[sid].advances)
                 => /\ sessions'[sid].status = "completed"
                    /\ sessions[sid].status = "in_progress"
                    /\ Len(ResponsesOf(sid))' = Cardinality(QuestionsOf(sessions[sid].survey))]_vars

\* a two-question survey answered in full
C1_Witness ==
    \E sid \in DOMAIN sessions :
        /\ C1Case(sid)
        /\ Cardinality(QuestionsOf(sessions[sid].survey)) = 2
        /\ sessions[sid].advances = 2
        /\ sessions[sid].status = "completed"
        /\ Len(ResponsesOf(sid)) = 2

\* ---------------------------------------------------------------------- C2
\* the conversation of u leaves the Awaiting* state of the current question for the
\* next question's Awaiting* state or for the main menu
LeavesAwaiting(u) ==
    /\ conv[u] \in Awaiting
    /\ conv'[u] \in Awaiting \cup {MAIN_MENU}
    /\ HasSession(ActiveSession(u))
    /\ \/ conv'[u] # conv[u]
       \/ sessions'[ActiveSession(u)].current_question # sessions[ActiveSession(u)].current_question

ResponseCreatedFor(session_id, question) ==
    /\ Len(responses') = Len(responses) + 1
    /\ SubSeq(responses', 1, Len(responses)) = responses
    /\ responses'[Len(responses')].session = session_id
    /\ responses'[Len(responses')].question = question

SkippedOptional(u, question) ==
    /\ Handles(u, TextMsg(LIT_SKIP))
    /\ question # 0
    /\ ~Row(questions, question).is_required
    /\ responses' = responses

\* C2: every step in which a conversation leaves the Awaiting* state of question q
\* (for the next question or the main menu) creates a Response for q in the active
\* session, or skips q with q not required, or sets the active session abandoned.
C2_NoSilentExitFromAwaiting ==
    [][\A u \in Users :
          LeavesAwaiting(u) =>
              LET sid == ActiveSession(u)
                  q == sessions[sid].current_question
              IN  \/ ResponseCreatedFor(sid, q)
                  \/ SkippedOptional(u, q)
                  \/ sessions'[sid].status = "abandoned"]_vars

\* an answer was saved and the next question asked
C2_Witness ==
    \E u \in Users :
        /\ conv[u] \in Awaiting
        /\ last.user = u
        /\ RepliedWith("ANSWER_SAVED")
        /\ Len(ResponsesOf(ActiveSession(u))) = 1

\* ---------------------------------------------------------------------- C3
\* C3: from each of the three answer states the cancel command sets the active
\* session abandoned and returns the conversation to the main menu.
C3_CancelFromEveryAnswerState ==
    [][\A u \in Users :
          (conv[u] \in Awaiting /\ Handles(u, TextMsg(<<"/cancel">>)))
              => /\ conv'[u] = MAIN_MENU
                 /\ sessions'[ActiveSession(u)].status = "abandoned"]_vars

\* ---------------------------------------------------------------------- C4
\* C4: a session belongs to a respondent whose profile is complete, and only a
\* respondent whose profile is complete is in the main menu.
C4_RegistrationGatesSurvey ==
    /\ \A i \in DOMAIN sessions : respondents[sessions[i].user].is_profile_complete
    /\ \A u \in Users :
          conv[u] = MAIN_MENU =>
              /\ HasRespondent(respondents, user_data[u].anonymous_id)
              /\ get_respondent(user_data[u].anonymous_id).is_profile_complete

\* ---------------------------------------------------------------------- C5
\* C5: each respondent has at most one session in status in_progress.
C5_AtMostOneInProgress ==
    \A r \in DOMAIN respondents :
        Cardinality({i \in DOMAIN sessions :
                        sessions[i].user = r /\ sessions[i].status = "in_progress"}) <= 1

\* ---------------------------------------------------------------------- C6
\* C6: a completed or abandoned session has no current question.
C6_FinishedSessionHasNoCurrentQuestion ==
    \A i \in DOMAIN sessions :
        sessions[i].status \in {"completed", "abandoned"} => sessions[i].current_question = 0

\* ---------------------------------------------------------------------- C7
\* C7: a completed session stays completed, and a session becomes abandoned only
\* from status started or in_progress.
C7_CompletedIsTerminal ==
    [][\A i \in DOMAIN sessions :
          /\ sessions[i].status = "completed" => sessions'[i].status = "completed"
          /\ (sessions'[i].status = "abandoned" /\ sessions[i].status # "abandoned")
                => sessions[i].status \in {"started", "in_progress"}]_vars

\* ---------------------------------------------------------------------- C8
StartsSurvey(u) ==
    /\ running
    /\ conv[u] = MAIN_MENU
    /\ Handles(u, TextMsg(LIT_START_SURVEY))

\* C8: StartSurvey on an active survey without questions creates one session, leaves
\* it abandoned and without Responses, replies that the survey is not ready, returns
\* to the main menu and does not raise.
C8_EmptySurveyIsAbandoned ==
    [][\A u \in Users :
          (/\ StartsSurvey(u)
           /\ ActiveSurveys # {}
           /\ QuestionsOf(get_active_survey) = {})
              => /\ Len(sessions') = Len(sessions) + 1
                 /\ SubSeq(sessions', 1, Len(sessions)) = sessions
                 /\ sessions'[Len(sessions')].status = "abandoned"
                 /\ sessions'[Len(sessions')].survey = get_active_survey
                 /\ \A i \in DOMAIN responses' : responses'[i].session # Len(sessions')
                 /\ responses' = responses
                 /\ conv'[u] = MAIN_MENU
                 /\ ~last'.raised
                 /\ RepliedWith("SURVEY_NOT_READY")']_vars

C8_Witness ==
    /\ RepliedWith("SURVEY_NOT_READY")
    /\ sessions # <<>>
    /\ sessions[Len(sessions)].status = "abandoned"
    /\ conv[last.user] = MAIN_MENU

\* ---------------------------------------------------------------------- C9
\* C9: StartSurvey with no active survey changes no durable row, replies that no
\* survey is available and returns to the main menu.
C9_NoActiveSurveyChangesNothing ==
    [][\A u \in Users :
          (StartsSurvey(u) /\ ActiveSurveys = {})
              => /\ durable' = durable
                 /\ conv'[u] = MAIN_MENU
                 /\ ~last'.raised
                 /\ RepliedWith("NO_ACTIVE_SURVEY")']_vars

C9_Witness ==
    /\ RepliedWith("NO_ACTIVE_SURVEY")
    /\ ActiveSurveys = {}
    /\ sessions = <<>>
    /\ conv[last.user] = MAIN_MENU

\* --------------------------------------------------------------------- C10
\* the questions of the session's survey that follow `question` most closely
Following(session, question) ==
    {n \in QuestionsOf(session.survey) :
        /\ n.order > Row(questions, question).order
        /\ \A o \in QuestionsOf(session.survey) :
              o.order > Row(questions, question).order => n.order <= o.order}

\* C10: the skip label sent for a current question that is not required, in any of
\* the three answer states, creates no Response and moves the session to the
\* question of the next greater order, or completes it when there is none.
C10_SkipOfOptionalQuestion ==
    [][\A u \in Users :
          LET sid == ActiveSession(u)
              q == sessions[sid].current_question
          IN  (/\ running
               /\ conv[u] \in Awaiting
               /\ Handles(u, TextMsg(LIT_SKIP))
               /\ HasSession(sid)
               /\ q # 0
               /\ ~Row(questions, q).is_required)
                  => /\ responses' = responses
                     /\ sessions'[sid].advances = sessions[sid].advances + 1
                     /\ IF Following(sessions[sid], q) = {}
                        THEN /\ sessions'[sid].status = "completed"
                             /\ conv'[u] = MAIN_MENU
                        ELSE /\ sessions'[sid].status = "in_progress"
                             /\ sessions'[sid].current_question
                                    \in {n.id : n \in Following(sessions[sid], q)}
                             /\ conv'[u] \in Awaiting]_vars

\* an optional voice question was skipped and the next question asked
C10_Witness ==
    \E u \in Users :
        LET sid == ActiveSession(u)
        IN  /\ HasSession(sid)
            /\ last.user = u
            /\ last.msg = TextMsg(LIT_SKIP)
            /\ sessions[sid].advances = 1
            /\ ResponsesOf(sid) = <<>>
            /\ sessions[sid].status = "in_progress"
            /\ conv[u] \in Awaiting
            /\ \E first \in QuestionsOf(sessions[sid].survey) :
                  /\ first.question_type = "voice"
                  /\ ~first.is_required
                  /\ first.order < Row(questions, sessions[sid].current_question).order

\* --------------------------------------------------------------------- C11
\* the step advances or completes the session
Advances(session_id) ==
    \/ sessions'[session_id].advances # sessions[session_id].advances
    \/ sessions'[session_id].current_question # sessions[session_id].current_question
    \/ /\ sessions'[session_id].status = "completed"
       /\ sessions[session_id].status # "completed"

\* C11: while the current question is required, a step that handles a submission
\* of the respondent (the skip label included) advances the current question or
\* completes the session only if it creates a Response for that question; in
\* WAITING_TEXT_ANSWER the skip label is stored as text_answer as it was sent and
\* the session advances.
C11_RequiredQuestionNeedsResponse ==
    [][\A u \in Users :
          LET sid == ActiveSession(u)
              q == sessions[sid].current_question
          IN  (/\ running
               /\ conv[u] \in Awaiting
               /\ last'.user = u
               /\ HasSession(sid)
               /\ q # 0
               /\ Row(questions, q).is_required)
                  => /\ Advances(sid) => ResponseCreatedFor(sid, q)
                     /\ (conv[u] = WAITING_TEXT_ANSWER /\ last'.msg = TextMsg(LIT_SKIP))
                           => /\ ResponseCreatedFor(sid, q)
                              /\ responses'[Len(responses')].text_answer = LIT_SKIP
                              /\ sessions'[sid].advances = sessions[sid].advances + 1]_vars

\* the skip label was stored as the answer of a required text question
C11_Witness ==
    /\ last.msg = TextMsg(LIT_SKIP)
    /\ \E i \in DOMAIN responses :
          /\ responses[i].text_answer = LIT_SKIP
          /\ Row(questions, responses[i].question).is_required
          /\ Row(questions, responses[i].question).question_type = "text"
          /\ sessions[responses[i].session].advances >= 1

\* --------------------------------------------------------------------- C12
QuestionPrompts == {"QUESTION_TEXT", "QUESTION_CHOICE", "QUESTION_VOICE"}
OffersSkip(kb) == \E j \in DOMAIN kb : kb[j] = BTN_SKIP

\* C12: the prompt sent for a question that is required carries no skip button,
\* whatever the type of the question.
C12_NoSkipButtonForRequired ==
    \A u \in Users :
        LET sid == ActiveSession(u)
        IN  (/\ last.user = u
             /\ conv[u] \in Awaiting
             /\ HasSession(sid)
             /\ sessions[sid].current_question # 0
             /\ Row(questions, sessions[sid].current_question).is_required)
                => \A i \in DOMAIN last.replies :
                      last.replies[i].tag \in QuestionPrompts => ~OffersSkip(last.replies[i].kb)

\* --------------------------------------------------------------------- C13
\* C13: in WAITING_CHOICE_ANSWER a text (not a command, not the skip of a question
\* that is not required) that equals the text of no option of the current question
\* creates no Response, changes no session and keeps the state; a text that equals
\* the text of an option creates a Response whose selected_option is an option of
\* the question with that text, and nothing else, and the session advances.
C13_ChoiceMatchesOptionTextExactly ==
    [][\A u \in Users :
          LET sid == ActiveSession(u)
              q == sessions[sid].current_question
              m == last'.msg
          IN  (/\ running
               /\ conv[u] = WAITING_CHOICE_ANSWER
               /\ last'.user = u
               /\ FilterText(m) /\ ~FilterCommand(m)
               /\ HasSession(sid)
               /\ q # 0
               /\ ~(m.text = LIT_SKIP /\ ~Row(questions, q).is_required))
                  => IF \E o \in options : o.question = q /\ o.text = m.text
                     THEN /\ ResponseCreatedFor(sid, q)
                          /\ LET r == responses'[Len(responses')]
                             IN  /\ HasRow(options, r.selected_option)
                                 /\ Row(options, r.selected_option).question = q
                                 /\ Row(options, r.selected_option).text = m.text
                                 /\ r.text_answer = NullText
                                 /\ r.telegram_file_id = NULL
                          /\ sessions'[sid].advances = sessions[sid].advances + 1
                     ELSE /\ responses' = responses
                          /\ sessions' = sessions
                          /\ conv'[u] = WAITING_CHOICE_ANSWER]_vars

\* one choice question answered with "No", the next one re-prompted after "yes"
C13_Witness ==
    \E u \in Users :
        /\ conv[u] = WAITING_CHOICE_ANSWER
        /\ last.user = u
        /\ last.msg = TextMsg(<<"yes">>)
        /\ RepliedWith("CHOOSE_AN_OPTION")
        /\ \E i \in DOMAIN responses :
              /\ responses[i].session = ActiveSession(u)
              /\ responses[i].selected_option # 0
              /\ Row(options, responses[i].selected_option).text = <<"No">>

\* --------------------------------------------------------------------- C14
\* C14: in WAITING_VOICE_ANSWER a text (a command included) that is not the skip
\* of a question that is not required creates no Response, changes no session and
\* keeps the state; a voice message creates a Response that holds the file id of
\* the message and no other payload, and the session advances.
C14_VoiceNeedsAttachment ==
    [][\A u \in Users :
          LET sid == ActiveSession(u)
              q == sessions[sid].current_question
              m == last'.msg
          IN  (/\ running
               /\ conv[u] = WAITING_VOICE_ANSWER
               /\ last'.user = u
               /\ HasSession(sid)
               /\ q # 0)
                  => /\ (FilterText(m) /\ ~(m.text = LIT_SKIP /\ ~Row(questions, q).is_required))
                           => /\ responses' = responses
                              /\ sessions' = sessions
                              /\ conv'[u] = WAITING_VOICE_ANSWER
                     /\ FilterVoice(m)
                           => /\ ResponseCreatedFor(sid, q)
                              /\ responses'[Len(responses')].telegram_file_id = m.file_id
                              /\ responses'[Len(responses')].text_answer = NullText
                              /\ responses'[Len(responses')].selected_option = 0
                              /\ sessions'[sid].advances = sessions[sid].advances + 1]_vars

\* one voice question answered with a voice message, the next one re-prompted
\* after a text
C14_Witness ==
    \E u \in Users :
        /\ conv[u] = WAITING_VOICE_ANSWER
        /\ last.user = u
        /\ last.msg = TextMsg(<<"Yes">>)
        /\ RepliedWith("SEND_A_VOICE_MESSAGE")
        /\ \E i \in DOMAIN responses :
              /\ responses[i].session = ActiveSession(u)
              /\ responses[i].telegram_file_id = "file1"

\* --------------------------------------------------------------------- C15
\* C15: in REGISTRATION_AGE a text that is no integer, or an integer outside
\* 16..100, changes no respondent and keeps the state; an integer inside 16..100
\* is written to the age of the respondent, nothing else is written, and the
\* state becomes REGISTRATION_OCCUPATION.
C15_AgeWithinRange ==
    [][\A u \in Users :
          LET m == last'.msg
              respondent == get_respondent(user_data[u].anonymous_id)
          IN  (/\ running
               /\ conv[u] = REGISTRATION_AGE
               /\ last'.user = u
               /\ FilterText(m) /\ ~FilterCommand(m))
                  => IF IsInt(m.text) /\ int(m.text) >= 16 /\ int(m.text) <= 100
                     THEN /\ respondents' =
                                [i \in DOMAIN respondents |->
                                    IF respondents[i].id = respondent.id
                                    THEN [respondents[i] EXCEPT !.age = int(m.text)]
                                    ELSE respondents[i]]
                          /\ conv'[u] = REGISTRATION_OCCUPATION
                          /\ UNCHANGED <<sessions, responses>>
                     ELSE /\ durable' = durable
                          /\ conv'[u] = REGISTRATION_AGE]_vars

\* the upper bound was accepted
C15_Witness ==
    \E u \in Users :
        /\ conv[u] = REGISTRATION_OCCUPATION
        /\ last.user = u
        /\ last.msg = TextMsg(<<"100">>)
        /\ get_respondent(user_data[u].anonymous_id).age = 100

\* --------------------------------------------------------------------- C16
\* C16: a respondent whose is_profile_complete is true has a gender, an age in
\* 16..100 and an occupation_type, and either is a student with a
\* university_course in 1..6 and no work_experience_years, or is working with
\* work_experience_years in 0..60 and no university_course.
C16_CompleteProfileHasItsFields ==
    \A i \in DOMAIN respondents :
        LET r == respondents[i]
        IN  r.is_profile_complete =>
              /\ r.gender \in {"male", "female"}
              /\ r.age \in 16..100
              /\ \/ /\ r.occupation_type = "student"
                    /\ r.university_course \in 1..6
                    /\ r.work_experience_years = NoInt
                 \/ /\ r.occupation_type = "working"
                    /\ r.work_experience_years \in 0..60
                    /\ r.university_course = NoInt

\* handle_experience has just completed the profile of a working respondent
\* with the largest accepted number of years
C16_Witness ==
    /\ running
    /\ \E i \in DOMAIN respondents :
          /\ respondents[i].is_profile_complete
          /\ respondents[i].occupation_type = "working"
          /\ respondents[i].work_experience_years = 60
          /\ respondents[i].gender = "female"
    /\ last.msg = TextMsg(<<"60">>)

\* --------------------------------------------------------------------- C17
\* C17: the stores never hold a Response for the question that an in_progress
\* session still has as its current_question, whatever the point at which the
\* process stopped.
C17_NoResponseForCurrentQuestion ==
    \A i \in DOMAIN sessions :
        (sessions[i].status = "in_progress" /\ sessions[i].current_question # 0)
            => \A j \in DOMAIN responses :
                  ~(/\ responses[j].session = sessions[i].id
                    /\ responses[j].question = sessions[i].current_question)

\* --------------------------------------------------------------------- C18
\* C18: when an answer handler takes a message and the session of the context
\* does not exist or has no current_question, the conversation of the user is in
\* none of the answer states after the step.
C18_LookupErrorLeavesAnswerState ==
    [][\A u \in Users :
          (/\ running
           /\ conv[u] \in Awaiting
           /\ last'.user = u
           /\ StateHandlerMatches(conv[u], last'.msg)
           /\ \/ ~HasSession(ActiveSession(u))
              \/ get_session(ActiveSession(u)).current_question = 0)
              => conv'[u] \notin Awaiting]_vars

\* --------------------------------------------------------------------- C19
\* C19: the bot process polls for updates only when ANONYMOUS_SALT is set, and
\* no handled update is answered by the error of the missing salt.
C19_NoPollingWithoutSalt ==
    /\ running => HasSalt
    /\ (last.raised /\ IsCommand(last.msg, "/start")) => HasSalt

\* --------------------------------------------------------------------- C20
\* C20: a step in which the cancel fallback takes /cancel leaves the sequence of
\* responses as it was: no row is removed, changed or added.
C20_CancelKeepsResponses ==
    [][\A u \in Users :
          (/\ running
           /\ conv[u] # NO_CONVERSATION
           /\ last'.user = u
           /\ IsCommand(last'.msg, "/cancel")
           /\ ~StateHandlerMatches(conv[u], last'.msg))
              => responses' = responses]_vars

\* a session that has a response was abandoned by /cancel
C20_Witness ==
    \E u \in Users :
        /\ last.user = u
        /\ IsCommand(last.msg, "/cancel")
        /\ RepliedWith("CANCELLED")
        /\ HasSession(ActiveSession(u))
        /\ get_session(ActiveSession(u)).status = "abandoned"
        /\ Len(ResponsesOf(ActiveSession(u))) >= 1

\* --------------------------------------------------------------------- C21
\* C21: whenever a step changes the current_question of a session from a question
\* q to a question q', q' is a question of the survey of q and of the session, the
\* order of q' is greater than the order of q, and no question of that survey has
\* an order strictly between the two.
C21_AdvanceTakesNextOrder ==
    [][\A i \in DOMAIN sessions :
          LET q == sessions[i].current_question
              qn == sessions'[i].current_question
          IN  (q # 0 /\ qn # 0 /\ qn # q)
                 => /\ Row(questions, qn).survey = Row(questions, q).survey
                    /\ Row(questions, qn).survey = sessions[i].survey
                    /\ Row(questions, qn).order > Row(questions, q).order
                    /\ \A o \in QuestionsOf(sessions[i].survey) :
                          ~(/\ o.order > Row(questions, q).order
                            /\ o.order < Row(questions, qn).order)]_vars

\* a session has advanced twice and stands at its third question, while a
\* question of the other survey has an order between the first two
C21_Witness ==
    \E i \in DOMAIN sessions :
        /\ sessions[i].status = "in_progress"
        /\ sessions[i].advances = 2
        /\ sessions[i].current_question # 0
        /\ Len(ResponsesOf(i)) = 2
        /\ \E o \in QuestionsOf(2) :
              /\ o.order < Row(questions, sessions[i].current_question).order
              /\ o.order > Row(questions, responses[1].question).order

\* --------------------------------------------------------------------- C22
\* C22: no two rows of responses have the same session and the same question.
C22_OneResponsePerSessionQuestion ==
    \A i, j \in DOMAIN responses :
        (/\ responses[i].session = responses[j].session
         /\ responses[i].question = responses[j].question) => i = j

\* --------------------------------------------------------------------- C23
\* C23: every row of responses has exactly one of text_answer, selected_option
\* and telegram_file_id set, and a selected_option that is set is an option of
\* the question of the row.
PayloadsOf(r) ==
    {f \in {"text_answer", "selected_option", "telegram_file_id"} :
        \/ f = "text_answer" /\ r.text_answer # NullText
        \/ f = "selected_option" /\ r.selected_option # 0
        \/ f = "telegram_file_id" /\ r.telegram_file_id # NULL}

C23_ExactlyOnePayload ==
    \A i \in DOMAIN responses :
        /\ Cardinality(PayloadsOf(responses[i])) = 1
        /\ responses[i].selected_option # 0
              => \E o \in OptionsOf(responses[i].question) :
                    o.id = responses[i].selected_option

\* --------------------------------------------------------------------- C24
\* C24: a step that creates a Response gives it the payload of the type that the
\* question of the Response has when the step is taken: text_answer for text,
\* selected_option for choice, telegram_file_id for voice.
PayloadOfType(question_type) ==
    CASE question_type = "text" -> "text_answer"
      [] question_type = "choice" -> "selected_option"
      [] question_type = "voice" -> "telegram_file_id"

C24_PayloadFollowsQuestionType ==
    [][Len(responses') = Len(responses) + 1
          => LET r == responses'[Len(responses')]
             IN  PayloadsOf(r) = {PayloadOfType(Row(questions, r.question).question_type)}]_vars

\* --------------------------------------------------------------------- C25
\* C25: no two questions of one survey have the same order.
C25_OrdersUniquePerSurvey ==
    \A sv \in surveys : DistinctOrders(QuestionsOf(sv.id))

\* --------------------------------------------------------------------- C26
\* C26: the index shown in the prompt of a question is one plus the number of
\* questions of the survey that come before it in ascending order: 1 for the
\* first question of a session, the index before plus 1 for each following one.
C26_PromptShowsPosition ==
    \A u \in Users :
        \A k \in DOMAIN last.replies :
            (/\ last.user = u
             /\ last.replies[k].tag \in QuestionPrompts
             /\ HasSession(ActiveSession(u))
             /\ get_session(ActiveSession(u)).current_question # 0)
                => LET session == get_session(ActiveSession(u))
                   IN  last.replies[k].index =
                          Rank(QuestionsOf(session.survey), session.current_question) + 1

\* --------------------------------------------------------------------- C27
\* C27: a step in which the process stops changes no respondent, so a profile
\* that was incomplete stays incomplete with the fields it had; and a /start of a
\* user whose respondent exists with is_profile_complete false changes no
\* respondent and puts the conversation in REGISTRATION_GENDER.
C27_StopKeepsPartialProfile ==
    [][/\ (running /\ ~running') => respondents' = respondents
       /\ \A u \in Users :
             (/\ running
              /\ conv[u] = NO_CONVERSATION
              /\ last'.user = u
              /\ IsCommand(last'.msg, "/start")
              /\ HasRespondent(respondents, generate_anonymous_id(u))
              /\ ~get_respondent(generate_anonymous_id(u)).is_profile_complete)
                 => /\ respondents' = respondents
                    /\ conv'[u] = REGISTRATION_GENDER]_vars

\* /start after a stop in REGISTRATION_COURSE: gender, age and occupation_type
\* are still there, the profile is incomplete and the gender is asked again
C27_Witness ==
    \E u \in Users :
        /\ conv[u] = REGISTRATION_GENDER
        /\ last.user = u
        /\ IsCommand(last.msg, "/start")
        /\ LET r == get_respondent(generate_anonymous_id(u))
           IN  /\ ~r.is_profile_complete
               /\ r.gender = "female"
               /\ r.age = 100
               /\ r.occupation_type = "student"
               /\ r.university_course = NoInt

\* --------------------------------------------------------------------- C28
\* the rows of user u in the tables rs, ss, rp
ProfileOf(rs, u) == {rs[i] : i \in {j \in DOMAIN rs : rs[j].anonymous_id = <<settings.ANONYMOUS_SALT, u>>}}
SessionsOfUser(rs, ss, u) ==
    {ss[i] : i \in {j \in DOMAIN ss : \E r \in ProfileOf(rs, u) : ss[j].user = r.id}}
ResponsesOfUser(rs, ss, rp, u) ==
    SelectSeq(rp, LAMBDA r : \E x \in SessionsOfUser(rs, ss, u) : x.id = r.session)

\* C28: a step that handles an update of user a leaves the respondent, the
\* sessions and the responses of every other user b as they were, and also the
\* conversation state and the user_data of b.
C28_UsersAreIndependent ==
    [][\A a, b \in TwoUsers :
          (a # b /\ last'.user = a)
             => /\ ProfileOf(respondents', b) = ProfileOf(respondents, b)
                /\ SessionsOfUser(respondents', sessions', b)
                      = SessionsOfUser(respondents, sessions, b)
                /\ ResponsesOfUser(respondents', sessions', responses', b)
                      = ResponsesOfUser(respondents, sessions, responses, b)
                /\ conv'[b] = conv[b]
                /\ user_data'[b] = user_data[b]]_vars

\* user 7 answers its text question while user 8, registered as working, is in
\* the middle of its own session with one response
C28_Witness ==
    /\ last.user = 7
    /\ last.msg = TextMsg(<<"Yes">>)
    /\ conv[7] = WAITING_CHOICE_ANSWER
    /\ conv[8] = WAITING_CHOICE_ANSWER
    /\ Len(ResponsesOfUser(respondents, sessions, responses, 8)) = 1
    /\ Len(ResponsesOfUser(respondents, sessions, responses, 7)) = 1
    /\ \E r \in ProfileOf(respondents, 8) : r.occupation_type = "working"

\* --------------------------------------------------------------------- C29
\* C29: when the respondent starts a survey while at least one survey is active,
\* the session created is bound to an active survey, and no active survey was
\* created later than that one.
C29_LatestActiveSurveyIsTaken ==
    [][\A u \in Users :
          (StartsSurvey(u) /\ ActiveSurveys # {})
             => /\ Len(sessions') = Len(sessions) + 1
                /\ \E sv \in ActiveSurveys :
                      /\ sessions'[Len(sessions')].survey = sv.id
                      /\ \A o \in ActiveSurveys : o.created_at <= sv.created_at]_vars

\* surveys 1 and 2 are active, survey 3 is not, and the session just started is
\* bound to survey 2
C29_Witness ==
    \E u \in Users :
        /\ last.user = u
        /\ last.msg = TextMsg(LIT_START_SURVEY)
        /\ {sv.id : sv \in ActiveSurveys} = {1, 2}
        /\ HasSession(ActiveSession(u))
        /\ get_session(ActiveSession(u)).survey = 2
        /\ conv[u] = WAITING_CHOICE_ANSWER

\* --------------------------------------------------------------------- C30
\* C30: in REGISTRATION_GENDER a text that equals one of the two labels of the
\* gender keyboard sets the gender of the respondent and moves the conversation
\* to REGISTRATION_AGE; every other text changes no respondent and leaves the
\* conversation in REGISTRATION_GENDER.
C30_GenderOnlyFromLabels ==
    [][\A u \in Users :
          LET m == last'.msg
          IN  (/\ running
               /\ conv[u] = REGISTRATION_GENDER
               /\ last'.user = u
               /\ FilterText(m) /\ ~FilterCommand(m))
                  => IF m.text \in {BTN_MALE, BTN_FEMALE}
                     THEN /\ get_respondent_in(respondents', user_data[u].anonymous_id).gender
                               = (IF m.text = BTN_MALE THEN "male" ELSE "female")
                          /\ conv'[u] = REGISTRATION_AGE
                     ELSE /\ respondents' = respondents
                          /\ conv'[u] = REGISTRATION_GENDER]_vars

\* --------------------------------------------------------------------- C31
\* C31: a step that handles, in MAIN_MENU, a text equal to a label of
\* get_main_menu_keyboard is not answered with the request to use the menu
\* buttons.
C31_MenuLabelsAreRecognised ==
    [][\A u \in Users :
          (/\ running
           /\ conv[u] = MAIN_MENU
           /\ last'.user = u
           /\ \E k \in DOMAIN get_main_menu_keyboard :
                 last'.msg = TextMsg(get_main_menu_keyboard[k]))
              => \A j \in DOMAIN last'.replies :
                    last'.replies[j].tag # "USE_MENU_BUTTONS"]_vars

====
